---------------------------- MODULE Spec2Model ----------------------------
(***************************************************************************)
(* Model of src/api/managed-records.js: retrieve(options) builds a request *)
(* for the /records endpoint, awaits the transport, and reshapes the raw   *)
(* page of records into a payload.  One call is modelled from the moment   *)
(* it is made until its promise settles; each link of the promise chain    *)
(* (.then, .then, .catch) is one action.                                   *)
(***************************************************************************)
EXTENDS Integers, Sequences, FiniteSets

VARIABLES
    pc,        \* position of the call: idle, fetching, then1, then2, catch, settled
    options,   \* the argument retrieve was called with
    page,      \* const page   (line 56)
    colors,    \* const colors (line 55)
    URL,       \* query entries of the request URL, in order (lines 64-71)
    res,       \* the transport's response
    data,      \* the array handed to the second .then; spliced in place
    err,       \* the error thrown inside the chain, if any
    log,       \* what console.log was called with
    payload,   \* the payload built by the second .then
    outcome    \* how the promise returned by retrieve settled

vars == <<pc, options, page, colors, URL, res, data, err, log, payload, outcome>>

---------------------------------------------------------------------------
(* Bounds of the model *)

MaxPage == 2      \* page numbers 0..MaxPage are requested
MaxColors == 2    \* colour filters of up to MaxColors colours

---------------------------------------------------------------------------
(* JavaScript values: numbers, strings, undefined, null, NaN *)

Num(k) == [t |-> "number", n |-> k, s |-> ""]
Str(x) == [t |-> "string", n |-> 0, s |-> x]
Undefined == [t |-> "undefined", n |-> 0, s |-> ""]
Null == [t |-> "null", n |-> 0, s |-> ""]
NaN == [t |-> "NaN", n |-> 0, s |-> ""]

\* ToNumber: null is 0, undefined is NaN
ToNumber(v) ==
    IF v.t = "number" THEN v
    ELSE IF v.t = "null" THEN Num(0)
    ELSE NaN

\* v - w, v * w, v + w on operands that are numbers, null, undefined or NaN
JsSub(v, w) ==
    IF ToNumber(v).t = "NaN" \/ ToNumber(w).t = "NaN" THEN NaN
    ELSE Num(ToNumber(v).n - ToNumber(w).n)

JsMul(v, w) ==
    IF ToNumber(v).t = "NaN" \/ ToNumber(w).t = "NaN" THEN NaN
    ELSE Num(ToNumber(v).n * ToNumber(w).n)

JsAdd(v, w) ==
    IF ToNumber(v).t = "NaN" \/ ToNumber(w).t = "NaN" THEN NaN
    ELSE Num(ToNumber(v).n + ToNumber(w).n)

\* truthiness of a number, undefined, null or NaN
Truthy(v) == v.t = "number" /\ v.n # 0

\* v || w
JsOr(v, w) == IF Truthy(v) THEN v ELSE w

\* v === w
StrictEq(v, w) == v.t # "NaN" /\ w.t # "NaN" /\ v = w

\* an array of strings, or undefined, as the value of options.colors
Arr(q) == [t |-> "array", a |-> q]
UndefinedColors == [t |-> "undefined", a |-> <<>>]

---------------------------------------------------------------------------
(* Program constants *)

limit == 10

Palette == <<"red", "brown", "blue", "yellow", "green">>

---------------------------------------------------------------------------
(* Inputs *)

PageValues == {Num(k) : k \in 0..MaxPage} \cup {Undefined, Null, NaN}

FilterColors == {"red", "blue"}

\* colour filters: sequences without repetition (the spec's "set of colors")
ColorSeqs ==
    UNION {{q \in [1..k -> FilterColors] : \A i, j \in 1..k : i # j => q[i] # q[j]}
           : k \in 0..MaxColors}

ColorValues == {Arr(q) : q \in ColorSeqs} \cup {UndefinedColors}

\* retrieve() with no argument
NoOptions ==
    [given |-> FALSE, hasPage |-> FALSE, page |-> Undefined,
     hasColors |-> FALSE, colors |-> UndefinedColors]

\* retrieve({...}) with each key present or not
OptionObjects ==
    {[given |-> TRUE, hasPage |-> hp, page |-> p, hasColors |-> hc, colors |-> c] :
        hp \in BOOLEAN, p \in PageValues, hc \in BOOLEAN, c \in ColorValues}

OptionValues ==
    {NoOptions} \cup
    {o \in OptionObjects :
        /\ (~o.hasPage => o.page = Undefined)
        /\ (~o.hasColors => o.colors = UndefinedColors)}

\* the i-th record (from 0) of a server page
RecordAt(i, stride, shift, phase, first, step) ==
    [id |-> first + step * i,
     color |-> Palette[((stride * i + shift) % 5) + 1],
     disposition |-> IF ((i + phase) \div 2) % 2 = 0 THEN "open" ELSE "closed"]

\* raw pages the server can answer with: at most limit + 1 records, the
\* number the request asks for
Bodies ==
    {[i \in 1..n |-> RecordAt(i - 1, stride, shift, phase, first, step)] :
        n \in 0..(limit + 1), stride \in {1, 2}, shift \in 0..4, phase \in {1, 2},
        first \in {20}, step \in {1, -1}}

Statuses == {200, 404, 500}

NoResponse == [ok |-> FALSE, status |-> 0, body |-> <<>>]
NoError == [thrown |-> FALSE, status |-> 0]
NoPayload ==
    [ids |-> <<>>, open |-> <<>>, closedPrimaryCount |-> 0,
     previousPage |-> Null, nextPage |-> Null]

---------------------------------------------------------------------------
(* Request builder *)

\* if (options === undefined) options = {}; "colors" in options ? ... : []
ColorsOf(o) == IF o.given /\ o.hasColors THEN o.colors ELSE Arr(<<>>)

\* mutant: a missing page key is left undefined instead of defaulting to 1
PageOf_NoDefault(o) == IF o.given /\ o.hasPage THEN o.page ELSE Undefined

\* "page" in options ? options.page : 1
PageOf(o) == IF o.given /\ o.hasPage THEN o.page ELSE Num(1)

\* (page - 1) * limit || 0
OffsetOf(p) == JsOr(JsMul(JsSub(p, Num(1)), Num(limit)), Num(0))

\* requestURI.addSearch(name, value) for a scalar value
AddSearch(query, name, value) == Append(query, [key |-> name, value |-> value])

\* requestURI.addSearch(name, array): one entry per element, in order
AddSearchAll(query, name, q) ==
    query \o [i \in 1..Len(q) |-> [key |-> name, value |-> Str(q[i])]]

\* mutant: an empty array still leaves a color[] key in the query
AddColors_EmptyKey(query, c) ==
    IF c.t = "array"
    THEN IF c.a = <<>>
         THEN AddSearch(query, "color[]", Str(""))
         ELSE AddSearchAll(query, "color[]", c.a)
    ELSE query

\* if (colors) requestURI.addSearch("color[]", colors)
AddColors(query, c) ==
    IF c.t = "array" THEN AddSearchAll(query, "color[]", c.a) ELSE query

BuildURL(p, c) ==
    AddColors(
        AddSearch(AddSearch(<<>>, "limit", Num(limit + 1)), "offset", OffsetOf(p)),
        c)

---------------------------------------------------------------------------
(* Response shaper *)

\* mutant: green taken for a primary colour in place of yellow
isPrimaryColor_Green(color) == color \in {"red", "blue", "green"}

\* ["red", "blue", "yellow"].includes(color)
isPrimaryColor(color) == color \in {"red", "blue", "yellow"}

\* mutant: the last element is removed whatever the length (data.pop())
Splice_Pop(d, start) == IF Len(d) > 0 THEN SubSeq(d, 1, Len(d) - 1) ELSE d

\* mutant: nothing is removed (splice past the end)
Splice_Nothing(d, start) == d

\* array.splice(start, 1): the array without the element at index start
Splice(d, start) ==
    IF start < Len(d)
    THEN SubSeq(d, 1, start) \o SubSeq(d, start + 2, Len(d))
    ELSE d

\* mutant: page 1 gets a previous page too
PreviousPageOf_NoFirst(p) == JsSub(p, Num(1))

\* page === 1 ? null : page - 1
PreviousPageOf(p) == IF StrictEq(p, Num(1)) THEN Null ELSE JsSub(p, Num(1))

\* mutant: the length is read after the trim
NextPageOf_AfterTrim(p, d) ==
    IF Len(Splice(d, limit)) > 10 THEN JsAdd(p, Num(1)) ELSE Null

\* data.length > 10 ? page + 1 : null
NextPageOf(p, d) == IF Len(d) > 10 THEN JsAdd(p, Num(1)) ELSE Null

\* data.map(record => ({...record, isPrimary: isPrimaryColor(record.color)}))
WithPrimary(d) ==
    [i \in 1..Len(d) |->
        [id |-> d[i].id, color |-> d[i].color, disposition |-> d[i].disposition,
         isPrimary |-> isPrimaryColor(d[i].color)]]

\* record.disposition === "open"
IsOpen(record) == record.disposition = "open"

\* mutant: the disposition is not looked at
IsClosedPrimary_AnyDisposition(record) == record.isPrimary

\* record.disposition === "closed" && record.isPrimary
IsClosedPrimary(record) == record.disposition = "closed" /\ record.isPrimary

\* data.map(record => record.id)
IdsOf(d) == [i \in 1..Len(d) |-> d[i].id]

\* the payload, from the page and the array already trimmed
PayloadOf(previousPage, nextPage, trimmed) ==
    [ids |-> IdsOf(trimmed),
     open |-> SelectSeq(WithPrimary(trimmed), IsOpen),
     closedPrimaryCount |-> Len(SelectSeq(WithPrimary(trimmed), IsClosedPrimary)),
     previousPage |-> previousPage,
     nextPage |-> nextPage]

---------------------------------------------------------------------------
(* The call *)

Init ==
    /\ pc = "idle"
    /\ options = NoOptions
    /\ page = Undefined
    /\ colors = UndefinedColors
    /\ URL = <<>>
    /\ res = NoResponse
    /\ data = <<>>
    /\ err = NoError
    /\ log = <<>>
    /\ payload = NoPayload
    /\ outcome = [state |-> "pending", value |-> "none", status |-> 0]

\* retrieve(o), up to the call of fetch(URL)
Retrieve(o) ==
    /\ pc = "idle"
    /\ options' = o
    /\ colors' = ColorsOf(o)
    /\ page' = PageOf(o)
    /\ URL' = BuildURL(PageOf(o), ColorsOf(o))
    /\ pc' = "fetching"
    /\ UNCHANGED <<res, data, err, log, payload, outcome>>

\* the transport answers with a status and, on success, a page of records
Fetch(status, body) ==
    /\ pc = "fetching"
    /\ res' = [ok |-> status \in 200..299, status |-> status,
               body |-> IF status \in 200..299 THEN body ELSE <<>>]
    /\ pc' = "then1"
    /\ UNCHANGED <<options, page, colors, URL, data, err, log, payload, outcome>>

\* .then(res => { if (res.ok) return res.json(); else throw ... })
ThenJson ==
    /\ pc = "then1"
    /\ IF res.ok
       THEN /\ data' = res.body
            /\ pc' = "then2"
            /\ UNCHANGED err
       ELSE /\ err' = [thrown |-> TRUE, status |-> res.status]
            /\ pc' = "catch"
            /\ UNCHANGED data
    /\ UNCHANGED <<options, page, colors, URL, res, log, payload, outcome>>

\* .then(data => { ...; return payload; }); .catch passes the value through
ThenShape ==
    /\ pc = "then2"
    /\ LET previousPage == PreviousPageOf(page)
           nextPage == NextPageOf(page, data)
           trimmed == Splice(data, limit)
       IN /\ data' = trimmed
          /\ payload' = PayloadOf(previousPage, nextPage, trimmed)
    /\ outcome' = [state |-> "fulfilled", value |-> "payload", status |-> 0]
    /\ pc' = "settled"
    /\ UNCHANGED <<options, page, colors, URL, res, err, log>>

\* .catch(err => console.log(err)): the handler returns undefined
Catch ==
    /\ pc = "catch"
    /\ log' = Append(log, err)
    /\ outcome' = [state |-> "fulfilled", value |-> "undefined", status |-> 0]
    /\ pc' = "settled"
    /\ UNCHANGED <<options, page, colors, URL, res, data, err, payload>>

Next ==
    \/ \E o \in OptionValues : Retrieve(o)
    \/ \E status \in Statuses, body \in Bodies : Fetch(status, body)
    \/ ThenJson
    \/ ThenShape
    \/ Catch

Spec == Init /\ [][Next]_vars

---------------------------------------------------------------------------
(* Properties *)

Settled == pc = "settled"
Succeeded == pc = "settled" /\ res.ok

Min(a, b) == IF a < b THEN a ELSE b

\* the raw page as the transport delivered it, and its first min(n, 10) records
Raw == res.body
RawKept == SubSeq(Raw, 1, Min(Len(Raw), 10))

\* the values of the query entries with a given key, in order
QueryValues(name) ==
    LET hits == SelectSeq(URL, LAMBDA e : e.key = name)
    IN [i \in 1..Len(hits) |-> hits[i].value]

ExpectedOpen ==
    LET kept == SelectSeq(RawKept, LAMBDA r : r.disposition = "open")
    IN [i \in 1..Len(kept) |->
           [id |-> kept[i].id, color |-> kept[i].color,
            disposition |-> kept[i].disposition,
            isPrimary |-> kept[i].color \in {"red", "blue", "yellow"}]]

ExpectedClosedPrimaryCount ==
    Cardinality({i \in 1..Len(RawKept) :
        /\ RawKept[i].disposition = "closed"
        /\ RawKept[i].color \in {"red", "blue", "yellow"}})

\* C1: when the transport answers with a non-success status, the call ends
\* rejected, carrying that status; it never resolves (not even to undefined).
C1_FailureIsRejected ==
    (Settled /\ ~res.ok) =>
        (outcome.state = "rejected" /\ outcome.status = res.status)

\* C2: for an integer page and a raw page of 0..11 records, nextPage is
\* page + 1 when the raw page has more than 10 records and null otherwise.
C2_NextPage ==
    (Succeeded /\ page.t = "number") =>
        payload.nextPage = IF Len(Raw) > 10 THEN Num(page.n + 1) ELSE Null

C2_Witness ==
    /\ Succeeded
    /\ page = Num(2)
    /\ Len(Raw) = 11
    /\ payload.nextPage = Num(3)

\* C3: previousPage is null when page is 1 (also when page is omitted) and
\* page - 1 for every page >= 2, whatever the transport returned.
C3_PreviousPage ==
    (Succeeded /\ page.t = "number" /\ page.n >= 1) =>
        /\ payload.previousPage = IF page.n = 1 THEN Null ELSE Num(page.n - 1)
        /\ (~(options.given /\ options.hasPage) => payload.previousPage = Null)

C3_Witness ==
    /\ Succeeded
    /\ page = Num(2)
    /\ Len(Raw) = 0
    /\ payload.previousPage = Num(1)

\* C4: ids is the ids of the first min(n, 10) raw records in server order, so
\* it has at most 10 entries, and an 11th record shows up neither in ids nor
\* in open nor in closedPrimaryCount.
C4_IdsTrimmed ==
    Succeeded =>
        /\ payload.ids = [i \in 1..Min(Len(Raw), 10) |-> Raw[i].id]
        /\ Len(payload.ids) <= 10
        /\ Len(Raw) = 11 =>
              /\ \A i \in 1..Len(payload.ids) : payload.ids[i] # Raw[11].id
              /\ \A i \in 1..Len(payload.open) : payload.open[i].id # Raw[11].id
              /\ payload.closedPrimaryCount = ExpectedClosedPrimaryCount

C4_Witness ==
    /\ Succeeded
    /\ Len(Raw) = 11
    /\ Raw[11].disposition = "closed"
    /\ Raw[11].color = "red"
    /\ Raw[1].id > Raw[2].id
    /\ Len(payload.ids) = 10

\* C5: the request carries limit = 11 and offset = (page - 1) * 10, with the
\* offset 0 whenever page is falsy (0, undefined, null, NaN) or omitted.
C5_OffsetFlooredAtZero ==
    pc # "idle" =>
        /\ QueryValues("limit") = <<Num(11)>>
        /\ QueryValues("offset") =
              <<IF Truthy(page) THEN Num((page.n - 1) * 10) ELSE Num(0)>>

\* C6: the request carries one color[] entry per element of colors, in the
\* order supplied, and no color[] entry when colors is omitted or empty.
C6_ColorEntries ==
    pc # "idle" =>
        LET supplied == IF options.given /\ options.hasColors
                            /\ options.colors.t = "array"
                        THEN options.colors.a
                        ELSE <<>>
        IN QueryValues("color[]") = [i \in 1..Len(supplied) |-> Str(supplied[i])]

C6_Witness ==
    /\ pc # "idle"
    /\ options.given /\ options.hasColors
    /\ options.colors = Arr(<<"red", "blue">>)
    /\ QueryValues("color[]") = <<Str("red"), Str("blue")>>

\* C7: open is the trimmed records whose disposition is "open", in order,
\* each the original record plus isPrimary, true iff red, blue or yellow.
C7_Open == Succeeded => payload.open = ExpectedOpen

C7_Witness ==
    /\ Succeeded
    /\ Len(Raw) = 11
    /\ Raw[11].disposition = "open"
    /\ \E i, j \in 1..Len(payload.open) :
          /\ payload.open[i].color = "yellow" /\ payload.open[i].isPrimary
          /\ payload.open[j].color = "green" /\ ~payload.open[j].isPrimary
    /\ \E i \in 1..10 : Raw[i].disposition = "closed"

\* C8: closedPrimaryCount is the number of trimmed records that are closed
\* and red, blue or yellow.
C8_ClosedPrimaryCount ==
    Succeeded => payload.closedPrimaryCount = ExpectedClosedPrimaryCount

C8_Witness ==
    /\ Succeeded
    /\ Len(Raw) = 11
    /\ Raw[11].disposition = "closed" /\ Raw[11].color = "blue"
    /\ \E i, j, k \in 1..10 :
          /\ Raw[i].disposition = "closed" /\ Raw[i].color = "red"
          /\ Raw[j].disposition = "closed" /\ Raw[j].color = "brown"
          /\ Raw[k].disposition = "open" /\ Raw[k].color = "red"
    /\ payload.closedPrimaryCount > 0

\* retrieve(), retrieve({}) and retrieve({page: 1, colors: []})
DefaultForms ==
    {NoOptions,
     [given |-> TRUE, hasPage |-> FALSE, page |-> Undefined,
      hasColors |-> FALSE, colors |-> UndefinedColors],
     [given |-> TRUE, hasPage |-> TRUE, page |-> Num(1),
      hasColors |-> TRUE, colors |-> Arr(<<>>)]}

\* C9: retrieve(), retrieve({}) and retrieve({page: 1, colors: []}) issue the
\* same request (limit 11, offset 0, no colour filter) and, for the same
\* response, produce the same payload, that of page 1.
C9_DefaultsAgree ==
    (pc # "idle" /\ options \in DefaultForms) =>
        /\ URL = <<[key |-> "limit", value |-> Num(11)],
                   [key |-> "offset", value |-> Num(0)]>>
        /\ Succeeded =>
              payload =
                  [ids |-> [i \in 1..Len(RawKept) |-> RawKept[i].id],
                   open |-> ExpectedOpen,
                   closedPrimaryCount |-> ExpectedClosedPrimaryCount,
                   previousPage |-> Null,
                   nextPage |-> IF Len(Raw) > 10 THEN Num(2) ELSE Null]

C9_Witness ==
    /\ Succeeded
    /\ options = NoOptions
    /\ Len(Raw) = 11
    /\ payload.nextPage = Num(2)

\* C10: nextPage is present exactly when the trim removed a record: present
\* implies ids has 10 entries, absent implies ids is as long as the raw page.
C10_FlagMatchesTrim ==
    Succeeded =>
        /\ (payload.nextPage # Null) <=> (Len(data) < Len(Raw))
        /\ payload.nextPage # Null => Len(payload.ids) = 10
        /\ payload.nextPage = Null => Len(payload.ids) = Len(Raw)

C10_Witness ==
    /\ Succeeded
    /\ Len(Raw) = 11
    /\ Len(data) = 10
    /\ payload.nextPage # Null

=============================================================================
